---------------------------- MODULE Spec2Model ----------------------------
(***************************************************************************)
(* Turn/match state machine, settle polling and scoring of the             *)
(* shuffleboard game (ShuffleboardGame, Player, Disc, Board).              *)
(*                                                                         *)
(* Coordinates are whole board units: x is the lateral axis, z the long    *)
(* axis.  The physics engine is an external collaborator: where a disc in  *)
(* flight is at each settle poll is an input of the poll.  Timers          *)
(* (setTimeout) are a bag of pending callbacks; firing one is one action.  *)
(***************************************************************************)
EXTENDS Integers, Sequences, FiniteSets, TLC

(***************************************************************************)
(* Bounds of the model                                                     *)
(***************************************************************************)
\* discs each player holds (createDiscs builds 4; rounds are played with fewer here)
DiscsPerPlayer == 2
\* poll budget passed to waitForDiscToStop (maxChecks, 200 by default)
MaxChecks == 5
\* rounds started, over all matches, before the model stops
MaxRounds == 2
\* configured settings.game.winningScore (75 by default)
WinningScore == 10
\* board positions looked up run from -MaxPosition to MaxPosition
MaxPosition == 60
\* Math.random() returns k / DrawSteps for k below DrawSteps, or 0.999
DrawSteps == 2
\* the final scores passed to the game-over screen run from 0 to MaxFinalScore
MaxFinalScore == 6
\* requestAnimationFrame is called at most MaxFrames times
MaxFrames == 40
\* the game-over screen is shown at most MaxScreens times
MaxScreens == 2
\* at most MaxPending callbacks of hideLoadingScreen are pending
MaxPending == 2

(***************************************************************************)
(* Program constants                                                       *)
(***************************************************************************)
NumPlayers == 2
RequiredStationaryFrames == 3
BoardWidth == 2
DiscStartZ == -8

Players == 0 .. (NumPlayers - 1)
DiscIdx == 0 .. (DiscsPerPlayer - 1)
NoWinner == -1
Null == [value |-> 0, type |-> "null"]

\* variant of the zone table with a penalty of 20
ScoringZones_penalty20 ==
    << [min |-> 18, max |-> 20, points |-> 10],
       [min |-> 15, max |-> 18, points |-> 8],
       [min |-> 10, max |-> 15, points |-> 7],
       [min |-> 0,  max |-> 10, points |-> -20] >>

\* Board.scoringZones, in declaration order
ScoringZones ==
    << [min |-> 18, max |-> 20, points |-> 10],
       [min |-> 15, max |-> 18, points |-> 8],
       [min |-> 10, max |-> 15, points |-> 7],
       [min |-> 0,  max |-> 10, points |-> -10] >>

ZoneTypes == << "zone1", "zone2", "zone3", "zone4" >>

\* variant of the membership test with an exclusive lower end
InZone_exclusiveMin(z, zone) == z > zone.min /\ z <= zone.max

\* membership test of the lookup loop
InZone(z, zone) == z >= zone.min /\ z <= zone.max

\* index of the first zone, in declaration order, that contains z; 0 when none does
RECURSIVE FirstZoneFrom(_, _)
FirstZoneFrom(z, i) ==
    IF i > Len(ScoringZones) THEN 0
    ELSE IF InZone(z, ScoringZones[i]) THEN i
    ELSE FirstZoneFrom(z, i + 1)

\* Board.getPointsForPosition(z)
getPointsForPosition(z) ==
    IF FirstZoneFrom(z, 1) = 0 THEN 0 ELSE ScoringZones[FirstZoneFrom(z, 1)].points

\* Board.getScoreForPosition(x, z): the zone's value and category, or null
getScoreForPosition(x, z) ==
    IF FirstZoneFrom(z, 1) = 0 THEN Null
    ELSE [value |-> getPointsForPosition(z), type |-> ZoneTypes[FirstZoneFrom(z, 1)]]

Abs(n) == IF n < 0 THEN -n ELSE n

\* Board.isOutOfBounds(x, z): the lateral coordinate is off the board
isOutOfBounds(x, z) == 2 * Abs(x) > BoardWidth


(***************************************************************************)
(* The AI shot planner of aiTakeTurn.  Lengths, powers and random draws    *)
(* are in thousandths, angles in thousandths of a degree.                  *)
(***************************************************************************)
Min2(a, b) == IF a < b THEN a ELSE b
Max2(a, b) == IF a > b THEN a ELSE b

\* variant of clamp that forgets the upper end
clamp_noUpper(value, min, max) == Max2(value, min)

\* utils.js clamp(value, min, max)
clamp(value, min, max) == Min2(Max2(value, min), max)

\* values of Math.random(): 0 <= r < 1
Draws == {(k * 1000) \div DrawSteps : k \in 0 .. (DrawSteps - 1)} \cup {999}

Difficulties == {"easy", "medium", "hard", "other"}

\* variant of the switch in which 'hard' falls through to the default
tier_hardFallsThrough(difficulty) ==
    IF difficulty = "easy"
    THEN [angleVariance |-> 30000, powerVariance |-> 600, minPower |-> 200,
          maxPower |-> 800, accuracy |-> 600]
    ELSE [angleVariance |-> 20000, powerVariance |-> 450, minPower |-> 300,
          maxPower |-> 850, accuracy |-> 750]

\* the difficulty switch of aiTakeTurn
tier(difficulty) ==
    CASE difficulty = "easy" ->
           [angleVariance |-> 30000, powerVariance |-> 600, minPower |-> 200,
            maxPower |-> 800, accuracy |-> 600]
      [] difficulty = "hard" ->
           [angleVariance |-> 15000, powerVariance |-> 300, minPower |-> 400,
            maxPower |-> 900, accuracy |-> 900]
      [] OTHER ->
           [angleVariance |-> 20000, powerVariance |-> 450, minPower |-> 300,
            maxPower |-> 850, accuracy |-> 750]

\* Math.random() * 2 - 1
Signed(r) == 2 * r - 1000

\* a * b in thousandths
Times(a, b) == (a * b) \div 1000

\* Math.sqrt, rounded down
RECURSIVE sqrtBetween(_, _, _)
sqrtBetween(v, lo, hi) ==
    IF lo >= hi THEN lo
    ELSE LET mid == (lo + hi + 1) \div 2
         IN IF mid * mid <= v THEN sqrtBetween(v, mid, hi)
            ELSE sqrtBetween(v, lo, mid - 1)

\* Math.sqrt(dx * dx + dz * dz), which is at most |dx| + |dz|
hypot(dx, dz) ==
    sqrtBetween(dx * dx + dz * dz, 0,
                Max2(dx, 0 - dx) + Max2(dz, 0 - dz))

\* positions getOpponentDiscs() can report for the disc picked, or none
NoDisc == [x |-> 0, z |-> 0, none |-> TRUE]
OpponentCells ==
    {NoDisc} \cup {[x |-> x, z |-> z, none |-> FALSE] :
                     x \in {-1000, 1000}, z \in {-5000, 19000}}

\* variant of the target that aims at the medium zones when there is no
\* opponent disc
target_midFallback(t, rHit, rZone, rX, rZ, opp) ==
    IF rHit < t.accuracy
    THEN IF rZone < 400
         THEN [x |-> Times(rX - 500, 500), z |-> 9500 + Times(rZ, 500)]
         ELSE IF rZone < 700 \/ opp.none
         THEN [x |-> Times(rX - 500, 2000), z |-> 8000 + Times(rZ, 1500)]
         ELSE [x |-> opp.x + Times(rX - 500, 500),
               z |-> opp.z + Times(rZ - 500, 500)]
    ELSE [x |-> Times(rX - 500, 4000), z |-> 7000 + Times(rZ, 4000)]

\* the target of the shot: rHit, rZone, rX, rZ are the draws, opp the
\* opponent disc picked
target(t, rHit, rZone, rX, rZ, opp) ==
    IF rHit < t.accuracy
    THEN IF rZone < 400
         THEN [x |-> Times(rX - 500, 500), z |-> 9500 + Times(rZ, 500)]
         ELSE IF rZone < 700
         THEN [x |-> Times(rX - 500, 2000), z |-> 8000 + Times(rZ, 1500)]
         ELSE IF ~opp.none
         THEN [x |-> opp.x + Times(rX - 500, 500),
               z |-> opp.z + Times(rZ - 500, 500)]
         ELSE [x |-> 0, z |-> 10000]
    ELSE [x |-> Times(rX - 500, 4000), z |-> 7000 + Times(rZ, 4000)]

\* the power of the shot at a target, rPower the draw
shotPower(t, tg, rPower) ==
    LET dx       == tg.x - 0
        dz       == tg.z - (-5000)
        distance == hypot(dx, dz)
        power    == clamp(distance \div 15, t.minPower, t.maxPower)
    IN clamp(Times(power, 1000 + Times(Signed(rPower), t.powerVariance)),
             100, 1000)

\* what the planner adds to atan2(dx, dz), rAngle the draw
angleOffset(t, rAngle) == Times(Signed(rAngle), t.angleVariance)

\* the plan of one shot
planShot(difficulty, rHit, rZone, rX, rZ, opp, rAngle, rPower) ==
    LET t  == tier(difficulty)
        tg == target(t, rHit, rZone, rX, rZ, opp)
    IN [difficulty |-> difficulty, hit |-> rHit < t.accuracy, zone |-> rZone,
        opp |-> opp, target |-> tg, angleOffset |-> angleOffset(t, rAngle),
        power |-> shotPower(t, tg, rPower)]

\* no shot planned yet
NoPlan ==
    [difficulty |-> "medium", hit |-> FALSE, zone |-> 0, opp |-> NoDisc,
     target |-> [x |-> 0, z |-> 10000], angleOffset |-> 0, power |-> 0]

(***************************************************************************)
(* The UIManager.  A JavaScript value is a record of its type and content. *)
(***************************************************************************)
JsNumber(n) == [kind |-> "number", num |-> n, str |-> "", arr |-> << >>]
JsString(t) == [kind |-> "string", num |-> 0, str |-> t, arr |-> << >>]
JsArray(a) == [kind |-> "array", num |-> 0, str |-> "", arr |-> a]
JsFunction == [kind |-> "function", num |-> 0, str |-> "", arr |-> << >>]
JsNaN == [kind |-> "NaN", num |-> 0, str |-> "", arr |-> << >>]

\* Number(v) for a number, an array of numbers or a function
ToNumber(v) ==
    CASE v.kind = "number" -> v
      [] v.kind = "array" /\ Len(v.arr) = 0 -> JsNumber(0)
      [] v.kind = "array" /\ Len(v.arr) = 1 -> JsNumber(v.arr[1])
      [] OTHER -> JsNaN

\* v || 0
OrZero(v) ==
    IF v.kind = "NaN" \/ (v.kind = "number" /\ v.num = 0) THEN JsNumber(0) ELSE v

\* UIManager.showGameOver(winner, playerScore, aiScore) of uiManager.js: the
\* title and the two values put into the final-score text
showGameOver(winner, playerScore, aiScore) ==
    [title |-> IF winner = JsString("player") THEN "You Win!" ELSE "Game Over",
     you |-> playerScore, ai |-> aiScore]

\* UIManager.showGameOver of the other version of the class, which validates
\* its arguments
showGameOverValidated(winner, playerScore, aiScore) ==
    LET w == IF winner \in {JsString("player"), JsString("ai"), JsString("tie")}
             THEN winner.str ELSE "tie"
    IN [title |-> CASE w = "player" -> "You Win!"
                    [] w = "ai" -> "Game Over"
                    [] OTHER -> "Game Over - Tie!",
        you |-> OrZero(ToNumber(playerScore)),
        ai |-> OrZero(ToNumber(aiScore))]

\* variant of the call of gameOver that passes what showGameOver expects
gameOverScreen_matching(version, winnerIndex, sc) ==
    IF version = "uiManager.js"
    THEN showGameOver(JsString(IF winnerIndex = 0 THEN "player" ELSE "ai"),
                      JsNumber(sc[0]), JsNumber(sc[1]))
    ELSE showGameOverValidated(JsString(IF winnerIndex = 0 THEN "player" ELSE "ai"),
                               JsNumber(sc[0]), JsNumber(sc[1]))

\* the call this.ui.showGameOver(winnerIndex, this.scores, callback) of
\* gameOver, for either version of the UIManager
gameOverScreen(version, winnerIndex, sc) ==
    IF version = "uiManager.js"
    THEN showGameOver(JsNumber(winnerIndex), JsArray(<< sc[0], sc[1] >>), JsFunction)
    ELSE showGameOverValidated(JsNumber(winnerIndex), JsArray(<< sc[0], sc[1] >>),
                               JsFunction)

\* the UIManager after gameOver has shown the game-over screen once more
showGameOverCall(u, version, winnerIndex, sc) ==
    [u EXCEPT !.winnerIndex = winnerIndex, !.scores = << sc[0], sc[1] >>,
              !.gameOverShown = @ + 1,
              !.screen = gameOverScreen(version, winnerIndex, sc)]

\* UIManager.toggleMenu(forceState): forced is FALSE for forceState = null.
\* The new state is returned, also when updating the page throws.
toggleMenu(u, forced, forceState) ==
    LET newState == IF forced THEN forceState ELSE ~u.isMenuOpen
    IN IF u.isMenuOpen = newState
       THEN [u EXCEPT !.returned = u.isMenuOpen]
       ELSE [u EXCEPT !.isMenuOpen = newState, !.returned = newState]

\* variant of closeMenu that reports whether the menu is closed
closeMenu_reportsClosed(u) ==
    IF u.isMenuOpen
    THEN [toggleMenu(u, TRUE, FALSE) EXCEPT !.returned = TRUE]
    ELSE [u EXCEPT !.returned = TRUE]

\* UIManager.closeMenu()
closeMenu(u) ==
    IF u.isMenuOpen
    THEN toggleMenu(u, TRUE, FALSE)
    ELSE [u EXCEPT !.returned = TRUE]

\* UIManager.openMenu()
openMenu(u) ==
    IF ~u.isMenuOpen
    THEN toggleMenu(u, TRUE, TRUE)
    ELSE [u EXCEPT !.returned = TRUE]

\* the modals the UIManager caches an element for
ModalElements == {"howToPlay", "settings", "gameOver"}

\* UIManager constructor: menu closed, no game-over screen yet, not
\* initialised, the loading overlay on display, no modal and no message box
\* on display; version is "none" until the page has loaded one of the two
\* classes
NewUi ==
    [isMenuOpen |-> FALSE, returned |-> FALSE, winnerIndex |-> 0,
     scores |-> << 0, 0 >>, gameOverShown |-> 0,
     screen |-> [title |-> "", you |-> JsNumber(0), ai |-> JsNumber(0)],
     version |-> "none", initialized |-> FALSE, initResolved |-> FALSE,
     overlay |-> [opacity |-> "", display |-> ""], pending |-> << >>,
     isModalOpen |-> FALSE, currentModal |-> "", active |-> {},
     messageBox |-> ""]

\* new UIManager() of one of the two classes
NewUIManager(version) == [NewUi EXCEPT !.version = version]

\* UIManager.init(game): keeps the game, binds the events and shows the
\* loading progress; the promise game.init() awaits resolves.  Neither class
\* sets _initialized.
initUi(u) == [u EXCEPT !.initResolved = TRUE]

\* UIManager.hideLoadingScreen(): part_002 returns at once unless
\* _initialized, and otherwise requests a frame that fades the overlay;
\* uiManager.js fades the overlay and sets a timer that hides it
hideLoadingScreen(u) ==
    IF u.version = "part_002"
    THEN IF ~u.initialized
         THEN u
         ELSE [u EXCEPT !.pending = Append(@, "fadeFrame")]
    ELSE [u EXCEPT !.overlay.opacity = "0",
                   !.pending = Append(@, "hideTimeout")]

\* a pending callback of hideLoadingScreen runs: the frame fades the overlay
\* and sets the timer, the timer sets display to 'none'
runUiCallback(u, i) ==
    LET rest == SubSeq(u.pending, 1, i - 1)
                    \o SubSeq(u.pending, i + 1, Len(u.pending))
    IN  IF u.pending[i] = "fadeFrame"
        THEN [u EXCEPT !.overlay.opacity = "0",
                       !.pending = Append(rest, "hideTimeout")]
        ELSE [u EXCEPT !.overlay.display = "none", !.pending = rest]

\* UIManager.hideAllModals() of part_002: every active modal is hidden; the
\* message box is not a modal with the class 'active' and stays
hideAllModals(u) ==
    [u EXCEPT !.active = {}, !.currentModal = "", !.isModalOpen = FALSE,
              !.returned = (u.active # {})]

\* UIManager.showModal(modalName, { hideOthers })
showModal(u, modalName, hideOthers) ==
    IF u.version = "part_002"
    THEN IF modalName \notin ModalElements
         THEN [u EXCEPT !.returned = FALSE]
         ELSE LET h == IF hideOthers THEN hideAllModals(u) ELSE u
              IN  [h EXCEPT !.active = @ \cup {modalName},
                            !.isModalOpen = TRUE,
                            !.currentModal = modalName,
                            !.returned = TRUE]
    ELSE IF modalName \in ModalElements
         THEN [u EXCEPT !.active = {modalName}, !.isModalOpen = TRUE]
         ELSE [u EXCEPT !.active = {}]

\* UIManager.hideModal(modalName); "" stands for no argument
hideModal(u, modalName) ==
    IF u.version = "part_002"
    THEN IF modalName = ""
         THEN hideAllModals(u)
         ELSE IF modalName \notin ModalElements
         THEN [u EXCEPT !.returned = FALSE]
         ELSE IF u.currentModal = modalName
         THEN [u EXCEPT !.active = @ \ {modalName}, !.currentModal = "",
                        !.isModalOpen = FALSE, !.returned = TRUE]
         ELSE [u EXCEPT !.active = @ \ {modalName}, !.returned = TRUE]
    ELSE [u EXCEPT !.active = {}, !.isModalOpen = FALSE]

\* UIManager.showMessage(title, message): part_002 displays the message box;
\* uiManager.js asks for the modal 'message', for which it has no element
showMessage(u) ==
    IF u.version = "part_002"
    THEN [u EXCEPT !.messageBox = "block", !.isModalOpen = TRUE]
    ELSE showModal(u, "message", TRUE)

\* UIManager.hideMessage() of part_002
hideMessage(u) ==
    [u EXCEPT !.messageBox = "none", !.isModalOpen = FALSE]

(***************************************************************************)
(* The Player object.  There are two versions of the class: player.js,     *)
(* which creates its own discs, and part_000, which is given them.  Powers *)
(* are in thousandths, frame times in milliseconds.                        *)
(***************************************************************************)
\* this.maxDiscs of part_000
maxDiscs == 4
\* the number of discs createDiscs of player.js creates
DiscsCreated == 4

NoPlayer ==
    [version |-> "none", currentPower |-> 0, powerIncreasing |-> TRUE,
     isCharging |-> FALSE, discs |-> << >>, currentDiscIndex |-> 0,
     added |-> FALSE, shotPower |-> 0]

\* Player.createDiscs of player.js: the old discs are dropped first
createDiscs(pl) == [pl EXCEPT !.discs = [i \in 1 .. DiscsCreated |-> i]]

\* the constructors
NewPlayer(version) ==
    IF version = "player.js"
    THEN createDiscs([NoPlayer EXCEPT !.version = version])
    ELSE [NoPlayer EXCEPT !.version = version]

\* variant of update whose ramp is not clamped at 1
update_unclamped(pl, delta, sine) ==
    IF ~pl.isCharging THEN pl
    ELSE IF pl.version = "player.js"
    THEN [pl EXCEPT !.currentPower = (sine + 1000) \div 2]
    ELSE LET powerDelta == delta \div 2
         IN IF pl.powerIncreasing
            THEN LET cp == pl.currentPower + powerDelta
                 IN [pl EXCEPT !.currentPower = cp,
                               !.powerIncreasing = ~(cp >= 1000)]
            ELSE LET cp == Max2(0, pl.currentPower - powerDelta)
                 IN [pl EXCEPT !.currentPower = cp,
                               !.powerIncreasing = (cp <= 0)]

\* Player.update(delta): player.js follows a sine of the clock (sine is
\* Math.sin(...) in thousandths), part_000 ramps up and down by 0.5 per second
update(pl, delta, sine) ==
    IF ~pl.isCharging THEN pl
    ELSE IF pl.version = "player.js"
    THEN [pl EXCEPT !.currentPower = (sine + 1000) \div 2]
    ELSE LET powerDelta == delta \div 2
         IN IF pl.powerIncreasing
            THEN LET cp == Min2(1000, pl.currentPower + powerDelta)
                 IN [pl EXCEPT !.currentPower = cp,
                               !.powerIncreasing = ~(cp >= 1000)]
            ELSE LET cp == Max2(0, pl.currentPower - powerDelta)
                 IN [pl EXCEPT !.currentPower = cp,
                               !.powerIncreasing = (cp <= 0)]

\* Player.startCharging()
startCharging(pl) ==
    IF pl.version = "player.js"
    THEN [pl EXCEPT !.isCharging = TRUE, !.currentPower = 0]
    ELSE [pl EXCEPT !.isCharging = TRUE, !.currentPower = 0,
                    !.powerIncreasing = TRUE]

\* Player.shoot(): player.js returns currentPower * maxPower (1.5)
shootPlayer(pl) ==
    [pl EXCEPT !.isCharging = FALSE, !.currentPower = 0,
               !.shotPower = IF pl.version = "player.js"
                             THEN (pl.currentPower * 3) \div 2
                             ELSE pl.currentPower]

\* variant of addDisc that does not look at maxDiscs
addDisc_unguarded(pl, disc) ==
    [pl EXCEPT !.discs = Append(pl.discs, disc), !.added = TRUE]

\* Player.addDisc(disc) of part_000
addDisc(pl, disc) ==
    IF Len(pl.discs) < maxDiscs
    THEN [pl EXCEPT !.discs = Append(pl.discs, disc), !.added = TRUE]
    ELSE [pl EXCEPT !.added = FALSE]

\* Player.resetDiscs() of player.js: every disc is reset in place
resetPlayerDiscs(pl) == [pl EXCEPT !.currentDiscIndex = 0]

\* Player.reset() of player.js
resetPlayer(pl) ==
    [createDiscs([pl EXCEPT !.currentDiscIndex = 0, !.discs = << >>])
        EXCEPT !.currentPower = 0, !.isCharging = FALSE]

(***************************************************************************)
(* The life of the game object: the constructor, init(), the frames of the *)
(* render loop and cleanup().  this.animate holds a function value: "stub" *)
(* is the empty arrow function the constructor of game.js assigns, "field" *)
(* the class field animate of game.js, "method" the method of part_001.    *)
(***************************************************************************)
GameVersions == {"game.js", "part_001"}
FrameOutcomes == {"ok", "throwsBeforeStep", "throwsAfterStep"}

\* no game object yet
NoLoop ==
    [version |-> "none", animate |-> "none", pending |-> << >>,
     animationFrameId |-> 0, nextId |-> 1, inited |-> FALSE,
     failed |-> FALSE, world |-> FALSE,
     steps |-> 0, cleaned |-> FALSE]

\* the constructor: in game.js the class fields are set first (animate is the
\* render loop) and the body then assigns this.animate the empty function
NewGame(version) ==
    [NoLoop EXCEPT !.version = version,
                   !.animate = IF version = "game.js" THEN "stub" ELSE "method"]

\* requestAnimationFrame(fn): the new frame's id is l.nextId
requestAnimationFrame(l, fn) ==
    [l EXCEPT !.pending = Append(@, [fn |-> fn, id |-> l.nextId]),
              !.nextId = @ + 1]

\* cancelAnimationFrame(id)
cancelAnimationFrame(l, id) ==
    [l EXCEPT !.pending = SelectSeq(@, LAMBDA f : f.id # id)]

\* this.world.step(...) when there is a world
stepWorld(l, o) ==
    IF l.world /\ o # "throwsBeforeStep" THEN [l EXCEPT !.steps = @ + 1] ELSE l

\* the class field animate of game.js
animateField(l, o) ==
    LET l1 == stepWorld(l, o)
        l2 == IF o # "ok" /\ l1.animationFrameId # 0
              THEN cancelAnimationFrame(l1, l1.animationFrameId) ELSE l1
    IN [requestAnimationFrame(l2, l2.animate)
           EXCEPT !.animationFrameId = l2.nextId]

\* animate() of part_001: the next frame is requested first
animateMethod(l, o) ==
    stepWorld(requestAnimationFrame(l, "method"), o)

\* a call of the function value fn
callAnimate(l, fn, o) ==
    CASE fn = "field" -> animateField(l, o)
      [] fn = "method" -> animateMethod(l, o)
      [] OTHER -> l

\* init(): setupPhysics creates the world and the last statement is
\* this.animate(); when a step fails (~ok) the loop is not started
initGame(l, ok, o) ==
    IF ~ok THEN [l EXCEPT !.failed = TRUE]
    ELSE callAnimate([l EXCEPT !.world = TRUE, !.inited = TRUE], l.animate, o)

\* the browser runs the oldest requested frame
runFrame(l, o) ==
    callAnimate([l EXCEPT !.pending = Tail(@)], Head(l.pending).fn, o)

\* cleanup(): the requested frame is cancelled, scene and world are dropped;
\* no gameplay timer is cleared and gameState is left as it is
cleanup(l) ==
    LET l1 == IF l.animationFrameId # 0
              THEN [cancelAnimationFrame(l, l.animationFrameId)
                       EXCEPT !.animationFrameId = 0]
              ELSE l
    IN [l1 EXCEPT !.world = FALSE, !.cleaned = TRUE]

(***************************************************************************)
(* ShuffleboardGame.state: the state name, its listeners in the order they *)
(* were added (a JavaScript Set), and what the last setState call did.     *)
(***************************************************************************)
validStates == {"loading", "menu", "playing", "paused", "gameOver"}

\* the callbacks handed to onStateChange; 0 stands for a value that is not a
\* function, and the callbacks in Throwing throw when they are called
Callbacks == {0, 1, 2, 3}
Throwing == {1, 3}

\* the constructor: state.value is 'loading', no listener
NewState ==
    [value |-> "loading", onStateChangeCallbacks |-> << >>,
     arg |-> "", calls |-> << >>]

\* variant of the notification without the try/catch around each callback
RECURSIVE notify_noCatch(_, _, _)
notify_noCatch(cbs, newState, oldState) ==
    IF cbs = << >> THEN << >>
    ELSE << [callback |-> Head(cbs), newState |-> newState,
             oldState |-> oldState] >>
         \o (IF Head(cbs) \in Throwing THEN << >>
             ELSE notify_noCatch(Tail(cbs), newState, oldState))

\* onStateChangeCallbacks.forEach(callback => try callback(newState, oldState)
\* catch ...): the calls made, in order
RECURSIVE notify(_, _, _)
notify(cbs, newState, oldState) ==
    IF cbs = << >> THEN << >>
    ELSE << [callback |-> Head(cbs), newState |-> newState,
             oldState |-> oldState] >>
         \o notify(Tail(cbs), newState, oldState)

\* setState(newState)
setState(st, newState) ==
    IF newState \notin validStates
    THEN [st EXCEPT !.arg = newState, !.calls = << >>]
    ELSE [st EXCEPT !.value = newState, !.arg = newState,
                    !.calls = notify(st.onStateChangeCallbacks, newState,
                                     st.value)]

\* onStateChange(callback): Set.add keeps one entry per callback
onStateChange(st, callback) ==
    IF callback # 0
       /\ \A n \in DOMAIN st.onStateChangeCallbacks :
             st.onStateChangeCallbacks[n] # callback
    THEN [st EXCEPT !.onStateChangeCallbacks = Append(@, callback)]
    ELSE st

\* the function onStateChange returned: onStateChangeCallbacks.delete(callback)
unsubscribe(st, callback) ==
    [st EXCEPT !.onStateChangeCallbacks = SelectSeq(@, LAMBDA c : c # callback)]

(***************************************************************************)
(* State                                                                   *)
(***************************************************************************)
VARIABLES
    gameState,          \* ShuffleboardGame.gameState
    currentPlayerIndex, \* ShuffleboardGame.currentPlayerIndex
    scores,             \* ShuffleboardGame.scores
    round,              \* ShuffleboardGame.round
    isSuddenDeath,      \* sudden-death flag of the match state
    winner,             \* winner index handed to the game-over screen
    aiTimeout,          \* ShuffleboardGame.aiTimeout: "null" or a timer handle
    timers,             \* pending setTimeout callbacks
    discs,              \* players[p].discs[i]: the Disc objects
    currentDiscIndex,   \* players[p].currentDiscIndex
    isCharging,         \* players[p].isCharging
    isAI,               \* players[p].isAI
    epoch,              \* matches started so far (identity of the disc objects)
    played,             \* history: rounds started so far, over all matches
    shots,              \* history: shots released in the current round
    roundBase,          \* history: the scores when the current round began
    probe,              \* the last lookup of a position's points on the board
    plan,               \* the last shot the AI planned
    ui,                 \* the UIManager: the menu and the game-over screen
    player,             \* a Player object on its own: charge power and discs
    loop,               \* the game object's life: construction, init, frames
    playerScore,        \* players[p].score, the total kept in the Player record
    state,              \* ShuffleboardGame.state and the last setState call
    lastOp,             \* history: the handler that ran last
    lastStale           \* history: it ran from a callback of an earlier turn or match

vars == << gameState, currentPlayerIndex, scores, round, isSuddenDeath, winner,
           aiTimeout, timers, discs, currentDiscIndex, isCharging, isAI, epoch,
           played, shots, roundBase, probe, plan, ui, player, loop,
           playerScore, state, lastOp, lastStale >>

\* cells the physics engine can report for a disc: on the board or beside it,
\* short of the scoring zones or in the farthest one
CellXs == {0, 2}
CellZs == {-5, 18}
Cells == [x : CellXs, z : CellZs]

StartCell == [x |-> 0, z |-> DiscStartZ]

\* Disc constructor; scoredAt is history: where the disc lay when it was scored
NewDisc == [hasBeenShot |-> FALSE, hasBeenScored |-> FALSE, score |-> 0,
            scoreType |-> "unset", scoredAt |-> StartCell]

\* Disc.reset(): hasBeenScored, score and scoreType are not among the fields
\* it clears
DiscReset(d) == [d EXCEPT !.hasBeenShot = FALSE]

\* the game with disc i of player p replaced by d
withDisc(s, p, i, d) ==
    [s EXCEPT !.discs = [q \in Players |-> [j \in DiscIdx |->
                            IF q = p /\ j = i THEN d ELSE s.discs[q][j]]]]

\* Player.resetDiscs()
resetDiscs(s, p) ==
    [s EXCEPT !.discs = [q \in Players |-> [j \in DiscIdx |->
                            IF q = p THEN DiscReset(s.discs[q][j]) ELSE s.discs[q][j]]],
              !.currentDiscIndex = [q \in Players |->
                                       IF q = p THEN 0 ELSE s.currentDiscIndex[q]]]

\* Player.getNextDisc(): index of the next disc, or -1 for null
getNextDisc(s, p) ==
    IF s.currentDiscIndex[p] >= DiscsPerPlayer THEN -1 ELSE s.currentDiscIndex[p]

\* Player.getRemainingDiscs(): discs not shot yet
getRemainingDiscs(s, p) == Cardinality({i \in DiscIdx : ~s.discs[p][i].hasBeenShot})

\* the disc a human shot acts on: the player's first disc not shot yet, or -1
ActiveDisc(s, p) ==
    IF getRemainingDiscs(s, p) = 0 THEN -1
    ELSE CHOOSE i \in DiscIdx :
            /\ ~s.discs[p][i].hasBeenShot
            /\ \A j \in DiscIdx : ~s.discs[p][j].hasBeenShot => i <= j

\* a pending setTimeout callback and the variables its closure reads: the disc
\* of a delayed shot (p, i, epoch), the counters of a settle poll (attempts,
\* frames); still is history: the polls in a row, up to now, that found the
\* disc at rest or off the board
Timer(kind, p, i, ep, attempts, frames, still, stale, ref) ==
    [kind |-> kind, p |-> p, i |-> i, epoch |-> ep, attempts |-> attempts,
     frames |-> frames, still |-> still, stale |-> stale, ref |-> ref]

AddTimer(s, t) == [s EXCEPT !.timers = Append(@, t)]

RemoveAt(q, n) == SubSeq(q, 1, n - 1) \o SubSeq(q, n + 1, Len(q))

\* history: every callback still pending belongs to a turn that is over
MarkStale(s) ==
    [s EXCEPT !.timers = [n \in DOMAIN @ |-> [@[n] EXCEPT !.stale = TRUE]]]

\* clearTimeout(this.aiTimeout)
clearAiTimeout(s) ==
    [s EXCEPT !.timers = SelectSeq(@, LAMBDA t : ~(t.kind = "ai" /\ t.ref))]

\* this.aiTimeout = setTimeout(() => this.aiTakeTurn(), aiDelay)
setAiTimeout(s) ==
    LET unref == [s EXCEPT !.timers =
                     [n \in DOMAIN @ |-> [@[n] EXCEPT !.ref = FALSE]]]
    IN [AddTimer(unref, Timer("ai", 0, 0, 0, 0, 0, 0, FALSE, TRUE))
          EXCEPT !.aiTimeout = "handle"]

\* ShuffleboardGame.startTurn()
startTurn(s) ==
    LET p  == s.currentPlayerIndex
        s1 == MarkStale([s EXCEPT !.gameState = "aiming"])
        s2 == IF \A i \in DiscIdx : s1.discs[p][i].hasBeenShot
              THEN resetDiscs(s1, p) ELSE s1
    IN IF s2.isAI[p] THEN setAiTimeout(s2) ELSE s2

\* ShuffleboardGame.checkWinCondition(): the placeholder returns null
checkWinCondition(s) == NoWinner

\* ShuffleboardGame.gameOver(winnerIndex)
gameOver(s, w) ==
    IF s.gameState = "gameOver" THEN s
    ELSE MarkStale([s EXCEPT !.gameState = "gameOver", !.winner = w])

\* ShuffleboardGame.gameOver(winnerIndex) of part_001, which has no test of
\* gameState
gameOverUnguarded(s, w) ==
    MarkStale([s EXCEPT !.gameState = "gameOver", !.winner = w])

\* ShuffleboardGame.endGame(winnerIndex)
endGame(s, w) == gameOver(s, w)

Max(S) == CHOOSE m \in S : \A n \in S : n <= m

\* tie at or above the winning score: nobody strictly ahead of all others
TiedAtThreshold(sc) ==
    /\ \E p \in Players : sc[p] >= WinningScore
    /\ Cardinality({p \in Players : sc[p] = Max({sc[q] : q \in Players})}) > 1

\* ShuffleboardGame.endRound(), after the design document: the round counter
\* goes up, a tie at or above the winning score turns sudden death on, the win
\* check decides between the end of the match and the next round, which
\* starts with the discs reset and player 0
endRound(s) ==
    LET s1 == [s EXCEPT !.round = @ + 1, !.played = @ + 1,
                        !.isSuddenDeath = TiedAtThreshold(s.scores)]
        w  == checkWinCondition(s1)
        s2 == resetDiscs(resetDiscs(s1, 0), 1)
    IN IF w # NoWinner THEN endGame(s1, w)
       ELSE startTurn([s2 EXCEPT !.currentPlayerIndex = 0, !.shots = 0,
                                 !.roundBase = s.scores])

\* ShuffleboardGame.endTurn()
endTurn(s) ==
    IF s.gameState = "gameOver" THEN s
    ELSE LET s1 == IF s.aiTimeout # "null"
                   THEN [clearAiTimeout(s) EXCEPT !.aiTimeout = "null"] ELSE s
             s2 == [s1 EXCEPT !.currentPlayerIndex = (@ + 1) % NumPlayers]
         IN IF getRemainingDiscs(s2, s2.currentPlayerIndex) = 0
            THEN endRound(s2) ELSE startTurn(s2)


\* variant of the loop test that forgets the hasBeenScored flag
IsScoringCandidate_rescore(d) == d.hasBeenShot

\* the test of the scoring loop: a disc that was shot and is not scored yet
IsScoringCandidate(d) == d.hasBeenShot /\ ~d.hasBeenScored

\* body of the scoring loop for one disc that getPosition() reports at cell
scoreDisc(d, cell) ==
    LET score == getScoreForPosition(cell.x, cell.z)
    IN IF ~IsScoringCandidate(d) THEN d
       ELSE IF score # Null
       THEN [d EXCEPT !.score = score.value, !.scoreType = score.type,
                      !.hasBeenScored = TRUE, !.scoredAt = cell]
       ELSE IF isOutOfBounds(cell.x, cell.z)
       THEN [d EXCEPT !.score = 0, !.scoreType = "out", !.hasBeenScored = TRUE,
                      !.scoredAt = cell]
       ELSE d

\* what the scoring loop adds to scores[playerIndex] for one disc
discGain(d, cell) ==
    IF IsScoringCandidate(d) /\ getScoreForPosition(cell.x, cell.z) # Null
    THEN getScoreForPosition(cell.x, cell.z).value ELSE 0

RECURSIVE gainFrom(_, _, _)
gainFrom(ds, cs, i) ==
    IF i >= DiscsPerPlayer THEN 0
    ELSE discGain(ds[i], cs[i]) + gainFrom(ds, cs, i + 1)

\* ShuffleboardGame.checkScoring(); cells[p][i] is where each disc lies
checkScoring(s, cells) ==
    IF s.gameState = "gameOver" THEN s
    ELSE LET s1 == [s EXCEPT
                      !.discs = [p \in Players |-> [i \in DiscIdx |->
                                    scoreDisc(s.discs[p][i], cells[p][i])]],
                      !.scores = [p \in Players |->
                                    s.scores[p] + gainFrom(s.discs[p], cells[p], 0)]]
             w  == checkWinCondition(s1)
         IN IF w # NoWinner THEN endGame(s1, w)
            ELSE IF \A p \in Players, i \in DiscIdx : s1.discs[p][i].hasBeenShot
            THEN endRound(s1)
            ELSE endTurn(s1)

\* Disc.shoot(power): the disc is launched (a disc object of an earlier match is
\* no longer one of players[p].discs)
shoot(s, p, i, ep) ==
    IF ep # s.epoch THEN s
    ELSE [withDisc(s, p, i, [s.discs[p][i] EXCEPT !.hasBeenShot = TRUE])
            EXCEPT !.shots = @ + 1]

\* ShuffleboardGame.waitForDiscToStop(disc): enter shooting, start the polls
waitForDiscToStop(s, stale) ==
    IF s.gameState = "gameOver" THEN s
    ELSE AddTimer([s EXCEPT !.gameState = "shooting"],
                  Timer("poll", 0, 0, 0, 0, 0, 0, stale, FALSE))

\* variant of the test that does not look at isOutOfBounds()
IsMoving_ignoresOob(moved, oob, attempts) == moved /\ attempts < MaxChecks

\* the isMoving test of checkIfStopped
IsMoving(moved, oob, attempts) == moved /\ ~oob /\ attempts < MaxChecks

\* variant of the update that never resets the counter
NextFrames_noReset(frames, moving) == IF ~moving THEN frames + 1 ELSE frames

\* the stationaryFrames update of checkIfStopped
NextFrames(frames, moving) == IF ~moving THEN frames + 1 ELSE 0

\* variant of the settle test without the poll budget
IsSettled_noBudget(frames, attempts) == frames >= RequiredStationaryFrames

\* the settle test of checkIfStopped
IsSettled(frames, attempts) ==
    frames >= RequiredStationaryFrames \/ attempts >= MaxChecks

\* checkIfStopped: one settle poll.  moved: the disc is farther than the
\* threshold from where the last poll saw it; oob: disc.isOutOfBounds()
checkIfStopped(s, t, moved, oob) ==
    IF s.gameState = "gameOver" THEN s
    ELSE LET attempts == t.attempts + 1
             moving   == IsMoving(moved, oob, attempts)
             frames   == NextFrames(t.frames, moving)
             still    == IF moved /\ ~oob THEN 0 ELSE t.still + 1
         IN IF IsSettled(frames, attempts)
            THEN AddTimer(s, Timer("score", 0, 0, 0, 0, 0, 0, t.stale, FALSE))
            ELSE AddTimer(s, Timer("poll", 0, 0, 0, attempts, frames, still,
                                   t.stale, FALSE))

\* ShuffleboardGame.aiTakeTurn() up to the delayed shot
aiTakeTurn(s, stale) ==
    IF s.gameState = "gameOver" THEN s
    ELSE LET p == s.currentPlayerIndex
             i == getNextDisc(s, p)
         IN IF i = -1 THEN endTurn(s)
            ELSE AddTimer(s, Timer("shot", p, i, s.epoch, 0, 0, 0, stale, FALSE))

\* variant of the delayed shot that starts the polls without shooting the disc
aiShot_noShoot(s, t) ==
    IF s.gameState = "gameOver" THEN s
    ELSE waitForDiscToStop(s, t.stale)

\* variant of the delayed shot without the gameOver test
aiShot_unguarded(s, t) ==
    waitForDiscToStop(shoot(s, t.p, t.i, t.epoch), t.stale)

\* the delayed shot of aiTakeTurn
aiShot(s, t) ==
    IF s.gameState = "gameOver" THEN s
    ELSE waitForDiscToStop(shoot(s, t.p, t.i, t.epoch), t.stale)

\* the post-settle callback of checkIfStopped
scoreCallback(s, cells) ==
    IF s.gameState # "gameOver" THEN checkScoring(s, cells) ELSE s

\* Player.shoot(): the charge ends
playerShoot(s, p) ==
    [s EXCEPT !.isCharging = [q \in Players |-> q # p /\ s.isCharging[q]]]

\* Player.updateScore(points) of players[p]; no handler under src/ calls it
updateScore(s, p, points) ==
    [s EXCEPT !.playerScore = [q \in Players |->
                 IF q = p THEN s.playerScore[q] + points ELSE s.playerScore[q]]]

\* ShuffleboardGame.setupPlayers(): new Player objects, scores = [0, 0]
setupPlayers(s) ==
    [s EXCEPT !.discs = [p \in Players |-> [i \in DiscIdx |-> NewDisc]],
              !.currentDiscIndex = [p \in Players |-> 0],
              !.isCharging = [p \in Players |-> FALSE],
              !.currentPlayerIndex = 0,
              !.scores = [p \in Players |-> 0],
              !.playerScore = [p \in Players |-> 0]]

\* ShuffleboardGame.showMainMenu()
showMainMenu(s) == MarkStale([s EXCEPT !.gameState = "menu"])

\* ShuffleboardGame.startGame(): a new match from the menu
startGame(s) ==
    startTurn([setupPlayers(s) EXCEPT !.epoch = @ + 1, !.round = 1,
                                      !.played = @ + 1,
                                      !.isSuddenDeath = FALSE,
                                      !.winner = NoWinner, !.shots = 0,
                                      !.roundBase = [p \in Players |-> 0]])

(***************************************************************************)
(* Actions                                                                 *)
(***************************************************************************)
Cur ==
    [gameState |-> gameState, currentPlayerIndex |-> currentPlayerIndex,
     scores |-> scores, round |-> round, isSuddenDeath |-> isSuddenDeath,
     winner |-> winner, aiTimeout |-> aiTimeout, timers |-> timers,
     discs |-> discs, currentDiscIndex |-> currentDiscIndex,
     isCharging |-> isCharging, isAI |-> isAI, epoch |-> epoch,
     played |-> played, shots |-> shots, roundBase |-> roundBase,
     playerScore |-> playerScore]

\* the state s a handler leaves behind becomes the game's state
InstallGame(s, op, stale) ==
    /\ lastOp' = op
    /\ lastStale' = stale
    /\ probe' = probe
    /\ plan' = plan
    /\ state' = state
    /\ player' = player
    /\ loop' = loop
    /\ \E v \in {s} :
          /\ gameState' = v.gameState
          /\ currentPlayerIndex' = v.currentPlayerIndex
          /\ scores' = v.scores
          /\ round' = v.round
          /\ isSuddenDeath' = v.isSuddenDeath
          /\ winner' = v.winner
          /\ aiTimeout' = v.aiTimeout
          /\ timers' = v.timers
          /\ discs' = v.discs
          /\ currentDiscIndex' = v.currentDiscIndex
          /\ isCharging' = v.isCharging
          /\ isAI' = v.isAI
          /\ epoch' = v.epoch
          /\ played' = v.played
          /\ shots' = v.shots
          /\ roundBase' = v.roundBase
          /\ playerScore' = v.playerScore

\* a handler that does not touch the UIManager
Install(s, op, stale) ==
    /\ InstallGame(s, op, stale)
    /\ ui' = ui

\* the state a callback runs in: its timer is no longer pending
Fired(n) == [Cur EXCEPT !.timers = RemoveAt(@, n)]

Live == played <= MaxRounds

Init ==
    /\ gameState = "menu"
    /\ currentPlayerIndex = 0
    /\ scores = [p \in Players |-> 0]
    /\ round = 1
    /\ isSuddenDeath = FALSE
    /\ winner = NoWinner
    /\ aiTimeout = "null"
    /\ timers = << >>
    /\ discs = [p \in Players |-> [i \in DiscIdx |-> NewDisc]]
    /\ currentDiscIndex = [p \in Players |-> 0]
    /\ isCharging = [p \in Players |-> FALSE]
    /\ \E aiEnabled \in BOOLEAN : isAI = [p \in Players |-> p = 1 /\ aiEnabled]
    /\ epoch = 0
    /\ played = 0
    /\ shots = 0
    /\ roundBase = [p \in Players |-> 0]
    /\ probe = [z |-> DiscStartZ, points |-> getPointsForPosition(DiscStartZ)]
    /\ plan = NoPlan
    /\ ui = NewUi
    /\ player = NoPlayer
    /\ loop = NoLoop
    /\ playerScore = [p \in Players |-> 0]
    /\ state = NewState
    /\ lastOp = "init"
    /\ lastStale = FALSE

\* the start button of the menu
StartGame ==
    /\ gameState = "menu"
    /\ played < MaxRounds
    /\ Install(startGame(Cur), "startGame", FALSE)

\* begin-shot input of a human player: Player.startCharging()
BeginCharge ==
    /\ Live
    /\ gameState = "aiming"
    /\ ~isAI[currentPlayerIndex]
    /\ Install([Cur EXCEPT !.gameState = "charging",
                           !.isCharging = [isCharging EXCEPT
                                              ![currentPlayerIndex] = TRUE]],
               "beginCharge", FALSE)

\* release-shot input of a human player: Player.shoot(), then the disc is launched
ReleaseShot ==
    /\ Live
    /\ gameState = "charging"
    /\ ActiveDisc(Cur, currentPlayerIndex) # -1
    /\ LET p == currentPlayerIndex
           i == ActiveDisc(Cur, p)
           s == [Cur EXCEPT !.isCharging = [isCharging EXCEPT ![p] = FALSE]]
       IN Install(waitForDiscToStop(shoot(s, p, i, epoch), FALSE),
                  "releaseShot", FALSE)

\* release-shot input while the game is aiming: Player.shoot() runs, and no
\* disc is launched outside the charging phase
ReleaseWhileAiming ==
    /\ Live
    /\ gameState = "aiming"
    /\ ~isAI[currentPlayerIndex]
    /\ Install(playerShoot(Cur, currentPlayerIndex), "releaseWhileAiming", FALSE)

\* the AI-delay timer fires
AiTimerFire ==
    \E n \in DOMAIN timers :
        /\ Live
        /\ timers[n].kind = "ai"
        /\ Install(aiTakeTurn(Fired(n), timers[n].stale), "aiTakeTurn",
                   timers[n].stale)

\* the delayed AI shot fires
AiShotFire ==
    \E n \in DOMAIN timers :
        /\ Live
        /\ timers[n].kind = "shot"
        /\ Install(aiShot(Fired(n), timers[n]), "aiShot", timers[n].stale)

\* a settle poll fires
SettlePoll ==
    \E n \in DOMAIN timers, moved \in BOOLEAN, oob \in BOOLEAN :
        /\ Live
        /\ timers[n].kind = "poll"
        /\ Install(checkIfStopped(Fired(n), timers[n], moved, oob),
                   IF moved /\ ~oob THEN "pollMoving" ELSE "pollQuiet",
                   timers[n].stale)

\* a settle poll fires and finds the disc on the board
SettlePollOnBoard ==
    \E n \in DOMAIN timers, moved \in BOOLEAN :
        /\ Live
        /\ timers[n].kind = "poll"
        /\ Install(checkIfStopped(Fired(n), timers[n], moved, FALSE),
                   IF moved THEN "pollMoving" ELSE "pollQuiet",
                   timers[n].stale)

\* a settle poll fires and disc.isOutOfBounds() is true
SettlePollOob ==
    \E n \in DOMAIN timers, moved \in BOOLEAN :
        /\ Live
        /\ timers[n].kind = "poll"
        /\ Install(checkIfStopped(Fired(n), timers[n], moved, TRUE),
                   "pollOob", timers[n].stale)

\* the discs whose position a scoring pass reads
Candidates ==
    {c \in Players \X DiscIdx : IsScoringCandidate(discs[c[1]][c[2]])}

\* what getPosition() reports: the physics engine decides for the discs in play
Reported(at) ==
    [p \in Players |-> [i \in DiscIdx |->
        IF <<p, i>> \in Candidates THEN at[<<p, i>>] ELSE StartCell]]

\* the post-settle timer fires; cs: the cells the physics engine can report
ScoreTimerFireAt(cs) ==
    \E n \in DOMAIN timers, at \in [Candidates -> cs] :
        /\ Live
        /\ timers[n].kind = "score"
        /\ Install(scoreCallback(Fired(n), Reported(at)), "checkScoring",
                   timers[n].stale)

ScoreTimerFire == ScoreTimerFireAt(Cells)

\* forced abort: gameOver(winnerIndex), at any moment of the first round played
ForceGameOver ==
    \E w \in Players :
        /\ gameState \in {"aiming", "charging", "shooting"}
        /\ winner = NoWinner
        /\ played < MaxRounds
        /\ Install(gameOver(Cur, w), "gameOver", FALSE)

\* play again: back to the menu
ShowMainMenu ==
    /\ gameState = "gameOver"
    /\ Install(showMainMenu(Cur), "showMainMenu", FALSE)

Next ==
    \/ StartGame
    \/ BeginCharge
    \/ ReleaseShot
    \/ ReleaseWhileAiming
    \/ AiTimerFire
    \/ AiShotFire
    \/ SettlePoll
    \/ ScoreTimerFire
    \/ ForceGameOver
    \/ ShowMainMenu

Spec == Init /\ [][Next]_vars

\* a caller asks the board for the points of a position
Positions == (0 - MaxPosition) .. MaxPosition

LookupPoints ==
    \E z \in Positions :
        /\ probe' = [z |-> z, points |-> getPointsForPosition(z)]
        /\ lastOp' = "getPointsForPosition"
        /\ UNCHANGED << gameState, currentPlayerIndex, scores, round,
                        isSuddenDeath, winner, aiTimeout, timers, discs,
                        currentDiscIndex, isCharging, isAI, epoch, played,
                        shots, roundBase, plan, ui, player, loop, playerScore,
                        state, lastStale >>

\* the board on its own: lookups of arbitrary positions
BoardSpec == Init /\ [][LookupPoints]_vars

\* the AI plans a shot: the planning part of aiTakeTurn, for any difficulty
\* setting and any random draws.  The plan depends on nothing but these
\* inputs, so one application covers every case.
PlanShot ==
    \E difficulty \in Difficulties, rHit \in Draws, rZone \in Draws,
       rX \in Draws, rZ \in Draws, opp \in OpponentCells,
       rAngle \in Draws, rPower \in Draws :
        /\ plan = NoPlan
        /\ plan' = planShot(difficulty, rHit, rZone, rX, rZ, opp, rAngle, rPower)
        /\ lastOp' = "planShot"
        /\ UNCHANGED << gameState, currentPlayerIndex, scores, round,
                        isSuddenDeath, winner, aiTimeout, timers, discs,
                        currentDiscIndex, isCharging, isAI, epoch, played,
                        shots, roundBase, probe, ui, player, loop, playerScore,
                        state, lastStale >>

\* the planner on its own
PlannerSpec == Init /\ [][PlanShot]_vars

UiVersions == {"uiManager.js", "part_002"}
FinalScores == 0 .. MaxFinalScore

\* gameOver(winnerIndex) shows the game-over screen
ShowGameOverScreen ==
    \E version \in UiVersions, w \in Players, s0 \in FinalScores,
       s1 \in FinalScores :
        /\ ui.gameOverShown < MaxScreens
        /\ ui' = showGameOverCall(ui, version, w,
                                  [p \in Players |-> IF p = 0 THEN s0 ELSE s1])
        /\ lastOp' = "showGameOver"
        /\ UNCHANGED << gameState, currentPlayerIndex, scores, round,
                        isSuddenDeath, winner, aiTimeout, timers, discs,
                        currentDiscIndex, isCharging, isAI, epoch, played,
                        shots, roundBase, probe, plan, player, loop,
                        playerScore, state, lastStale >>

\* the game's variables, which a call of a UIManager or Player method leaves
\* alone
gameVars ==
    << gameState, currentPlayerIndex, scores, round, isSuddenDeath, winner,
       aiTimeout, timers, discs, currentDiscIndex, isCharging, isAI, epoch,
       played, shots, roundBase, probe, plan, loop, playerScore, state,
       lastStale >>

ToggleMenu ==
    \E forced \in BOOLEAN, forceState \in BOOLEAN :
        /\ ui' = toggleMenu(ui, forced, forceState)
        /\ lastOp' = "toggleMenu"
        /\ UNCHANGED << gameVars, player >>

CloseMenu ==
    /\ ui' = closeMenu(ui)
    /\ lastOp' = "closeMenu"
    /\ UNCHANGED << gameVars, player >>

OpenMenu ==
    /\ ui' = openMenu(ui)
    /\ lastOp' = "openMenu"
    /\ UNCHANGED << gameVars, player >>

NextUi ==
    \/ ShowGameOverScreen
    \/ ToggleMenu
    \/ CloseMenu
    \/ OpenMenu

\* the user interface on its own
UiSpec == Init /\ [][NextUi]_vars

\* the names showModal and hideModal are called with; 'message' is the name
\* showMessage of uiManager.js asks for
ModalInputs == ModalElements \cup {"message"}

\* the page loads one of the two UIManager classes and constructs it
ConstructUi ==
    \E version \in UiVersions :
        /\ ui.version = "none"
        /\ ui' = NewUIManager(version)
        /\ lastOp' = "newUIManager"
        /\ UNCHANGED << gameVars, player >>

\* game.init(): await this.ui.init(this)
UiInit ==
    /\ ui.version # "none"
    /\ ~ui.initResolved
    /\ ui' = initUi(ui)
    /\ lastOp' = "uiInit"
    /\ UNCHANGED << gameVars, player >>

\* this.ui.hideLoadingScreen()
HideLoadingScreen ==
    /\ ui.version # "none"
    /\ Len(ui.pending) < MaxPending
    /\ ui' = hideLoadingScreen(ui)
    /\ lastOp' = "hideLoadingScreen"
    /\ UNCHANGED << gameVars, player >>

\* the browser runs a frame or timer callback of hideLoadingScreen
RunUiCallback ==
    \E i \in 1 .. Len(ui.pending) :
        /\ ui' = runUiCallback(ui, i)
        /\ lastOp' = "runUiCallback"
        /\ UNCHANGED << gameVars, player >>

ShowModal ==
    \E modalName \in ModalInputs, hideOthers \in BOOLEAN :
        /\ ui.version # "none"
        /\ ui' = showModal(ui, modalName, hideOthers)
        /\ lastOp' = "showModal"
        /\ UNCHANGED << gameVars, player >>

HideModal ==
    \E modalName \in ModalInputs \cup {""} :
        /\ ui.version # "none"
        /\ ui' = hideModal(ui, modalName)
        /\ lastOp' = "hideModal"
        /\ UNCHANGED << gameVars, player >>

\* hideAllModals and hideMessage are methods of part_002 only
HideAllModals ==
    /\ ui.version = "part_002"
    /\ ui' = hideAllModals(ui)
    /\ lastOp' = "hideAllModals"
    /\ UNCHANGED << gameVars, player >>

ShowMessage ==
    /\ ui.version # "none"
    /\ ui' = showMessage(ui)
    /\ lastOp' = "showMessage"
    /\ UNCHANGED << gameVars, player >>

HideMessage ==
    /\ ui.version = "part_002"
    /\ ui' = hideMessage(ui)
    /\ lastOp' = "hideMessage"
    /\ UNCHANGED << gameVars, player >>

NextScreen ==
    \/ ConstructUi
    \/ UiInit
    \/ HideLoadingScreen
    \/ RunUiCallback
    \/ ShowModal
    \/ HideModal
    \/ HideAllModals
    \/ ShowMessage
    \/ HideMessage

\* the loading overlay, the modals and the message box of a UIManager
ScreenSpec == Init /\ [][NextScreen]_vars

PlayerVersions == {"player.js", "part_000"}
\* frame times of the render loop, in milliseconds
Deltas == {0, 200, 600, 3000}
\* values of Math.sin, in thousandths
Sines == {-1000, -500, 0, 500, 1000}
\* the discs handed to addDisc
DiscLabels == {1, 2}

PlayerNew ==
    /\ player = NoPlayer
    /\ \E version \in PlayerVersions :
        /\ player' = NewPlayer(version)
        /\ lastOp' = "newPlayer"
        /\ UNCHANGED << gameVars, ui >>

PlayerUpdate ==
    /\ player # NoPlayer
    /\ \E delta \in Deltas, sine \in Sines :
        /\ player' = update(player, delta, sine)
        /\ lastOp' = "update"
        /\ UNCHANGED << gameVars, ui >>

PlayerStartCharging ==
    /\ player # NoPlayer
    /\ player' = startCharging(player)
    /\ lastOp' = "startCharging"
    /\ UNCHANGED << gameVars, ui >>

PlayerShoot ==
    /\ player # NoPlayer
    /\ player' = shootPlayer(player)
    /\ lastOp' = "shoot"
    /\ UNCHANGED << gameVars, ui >>

PlayerCreateDiscs ==
    /\ player.version = "player.js"
    /\ player' = createDiscs(player)
    /\ lastOp' = "createDiscs"
    /\ UNCHANGED << gameVars, ui >>

PlayerResetDiscs ==
    /\ player.version = "player.js"
    /\ player' = resetPlayerDiscs(player)
    /\ lastOp' = "resetDiscs"
    /\ UNCHANGED << gameVars, ui >>

PlayerReset ==
    /\ player.version = "player.js"
    /\ player' = resetPlayer(player)
    /\ lastOp' = "reset"
    /\ UNCHANGED << gameVars, ui >>

PlayerAddDisc ==
    /\ player.version = "part_000"
    /\ \E disc \in DiscLabels :
        /\ player' = addDisc(player, disc)
        /\ lastOp' = "addDisc"
        /\ UNCHANGED << gameVars, ui >>

NextPlayer ==
    \/ PlayerNew
    \/ PlayerUpdate
    \/ PlayerStartCharging
    \/ PlayerShoot
    \/ PlayerCreateDiscs
    \/ PlayerResetDiscs
    \/ PlayerReset
    \/ PlayerAddDisc

\* a Player object on its own
PlayerSpec == Init /\ [][NextPlayer]_vars

\* the variables the render loop leaves alone
nonLoopVars ==
    << gameState, currentPlayerIndex, scores, round, isSuddenDeath, winner,
       aiTimeout, timers, discs, currentDiscIndex, isCharging, isAI, epoch,
       played, shots, roundBase, probe, plan, ui, player, playerScore,
       state, lastStale >>

ConstructGame ==
    /\ loop = NoLoop
    /\ \E version \in GameVersions :
        /\ loop' = NewGame(version)
        /\ lastOp' = "construct"
        /\ UNCHANGED nonLoopVars

InitGame ==
    /\ loop.version # "none" /\ ~loop.inited /\ ~loop.failed
    /\ \E ok \in BOOLEAN, o \in FrameOutcomes :
        /\ loop' = initGame(loop, ok, o)
        /\ lastOp' = "initGame"
        /\ UNCHANGED nonLoopVars

RunFrame ==
    /\ loop.pending # << >>
    /\ loop.nextId < MaxFrames
    /\ \E o \in FrameOutcomes :
        /\ loop' = runFrame(loop, o)
        /\ lastOp' = "frame"
        /\ UNCHANGED nonLoopVars

NextLoop ==
    \/ ConstructGame
    \/ InitGame
    \/ RunFrame

\* the render loop on its own
LoopSpec == Init /\ [][NextLoop]_vars

\* cleanup() (game.js only: part_001 has no such method), called when the
\* page is about to unload
Cleanup ==
    /\ loop.version = "game.js" /\ loop.inited /\ ~loop.cleaned
    /\ loop' = cleanup(loop)
    /\ lastOp' = "cleanup"
    /\ UNCHANGED nonLoopVars

\* the post-settle timer fires after cleanup(): this.world is null and
\* checkScoring throws at this.world.step before it has changed anything
ScoreTimerFireDisposed ==
    \E n \in DOMAIN timers :
        /\ Live
        /\ timers[n].kind = "score"
        /\ gameState # "gameOver"
        /\ ~loop.world
        /\ Install(Fired(n), "checkScoringThrew", timers[n].stale)

\* gameOver(winnerIndex) of either version of the game, with the screen it
\* shows; it may be called again when the game is already over
GameOverCall ==
    \E w \in Players, uiVersion \in UiVersions :
        /\ loop.inited
        /\ gameState \in {"aiming", "charging", "shooting", "gameOver"}
        /\ ui.gameOverShown < MaxScreens
        /\ IF loop.version = "game.js"
           THEN /\ InstallGame(gameOver(Cur, w), "gameOverCall", FALSE)
                /\ ui' = IF gameState = "gameOver" THEN ui
                         ELSE showGameOverCall(ui, uiVersion, w, scores)
           ELSE /\ InstallGame(gameOverUnguarded(Cur, w), "gameOverCall", FALSE)
                /\ ui' = showGameOverCall(ui, uiVersion, w, scores)

\* the names setState is called with: the valid ones, the gameplay phases and
\* the empty string
StateNames == validStates \cup {"aiming", "shooting", ""}

\* the variables the state object's methods leave alone
nonStateVars ==
    << gameState, currentPlayerIndex, scores, round, isSuddenDeath, winner,
       aiTimeout, timers, discs, currentDiscIndex, isCharging, isAI, epoch,
       played, shots, roundBase, probe, plan, ui, player, loop, playerScore,
       lastStale >>

SetState ==
    \E newState \in StateNames :
        /\ state' = setState(state, newState)
        /\ lastOp' = "setState"
        /\ UNCHANGED nonStateVars

OnStateChange ==
    \E callback \in Callbacks :
        /\ state' = onStateChange(state, callback)
        /\ lastOp' = "onStateChange"
        /\ UNCHANGED nonStateVars

Unsubscribe ==
    \E callback \in Callbacks \ {0} :
        /\ state' = unsubscribe(state, callback)
        /\ lastOp' = "unsubscribe"
        /\ UNCHANGED nonStateVars

NextState ==
    \/ SetState
    \/ OnStateChange
    \/ Unsubscribe

\* the state object on its own
StateSpec == Init /\ [][NextState]_vars

\* the first round of a match that is played to its end
FirstRound == played <= 1

NextFirstRound ==
    \/ FirstRound /\ StartGame
    \/ FirstRound /\ BeginCharge
    \/ FirstRound /\ ReleaseShot
    \/ FirstRound /\ AiTimerFire
    \/ FirstRound /\ AiShotFire
    \/ FirstRound /\ SettlePoll
    \/ FirstRound /\ ScoreTimerFire

\* the event loop runs every timer that is due
FairSpec ==
    /\ Init
    /\ [][NextFirstRound]_vars
    /\ WF_vars(FirstRound /\ SettlePoll)
    /\ WF_vars(FirstRound /\ ScoreTimerFire)

\* the cells of the whole board: a disc can also stop in the nearest zone,
\* the one worth -10
PenaltyCells == [x : CellXs, z : {5}]
BoardCells == Cells \cup PenaltyCells

NextWholeBoard ==
    \/ FirstRound /\ StartGame
    \/ FirstRound /\ BeginCharge
    \/ FirstRound /\ ReleaseShot
    \/ FirstRound /\ AiTimerFire
    \/ FirstRound /\ AiShotFire
    \/ FirstRound /\ SettlePoll
    \/ FirstRound /\ ScoreTimerFireAt(BoardCells)

\* the first round of a match, with discs stopping anywhere on the board
WholeBoardSpec == Init /\ [][NextWholeBoard]_vars

NextSettling ==
    \/ FirstRound /\ StartGame
    \/ FirstRound /\ BeginCharge
    \/ FirstRound /\ ReleaseShot
    \/ FirstRound /\ AiTimerFire
    \/ FirstRound /\ AiShotFire
    \/ FirstRound /\ SettlePollOnBoard
    \/ FirstRound /\ SettlePollOob
    \/ FirstRound /\ ScoreTimerFire

\* the first round of a match, the settle polls telling whether they found the
\* disc out of bounds
SettlingSpec == Init /\ [][NextSettling]_vars

\* the first round of a match of a game that is constructed, initialised and
\* at some moment cleaned up: input listeners are removed by cleanup(), the
\* timers that are pending keep firing
NextCleanup ==
    \/ ConstructGame
    \/ InitGame
    \/ Cleanup
    \/ loop.inited /\ ~loop.cleaned /\ FirstRound /\ StartGame
    \/ loop.inited /\ ~loop.cleaned /\ FirstRound /\ BeginCharge
    \/ loop.inited /\ ~loop.cleaned /\ FirstRound /\ ReleaseShot
    \/ loop.inited /\ FirstRound /\ AiTimerFire
    \/ loop.inited /\ FirstRound /\ AiShotFire
    \/ loop.inited /\ FirstRound /\ SettlePoll
    \/ loop.inited /\ loop.world /\ FirstRound /\ ScoreTimerFire
    \/ loop.inited /\ FirstRound /\ ScoreTimerFireDisposed

CleanupSpec == Init /\ [][NextCleanup]_vars

\* the first round of a match in which gameOver may be called at any moment,
\* and again
NextGameOver ==
    \/ ConstructGame
    \/ InitGame
    \/ GameOverCall
    \/ loop.inited /\ FirstRound /\ StartGame
    \/ loop.inited /\ FirstRound /\ BeginCharge
    \/ loop.inited /\ FirstRound /\ ReleaseShot
    \/ loop.inited /\ FirstRound /\ AiTimerFire
    \/ loop.inited /\ FirstRound /\ AiShotFire
    \/ loop.inited /\ FirstRound /\ SettlePoll
    \/ loop.inited /\ FirstRound /\ ScoreTimerFire

GameOverSpec == Init /\ [][NextGameOver]_vars

\* a match in its first round at the moment a turn is about to start, for any
\* player and any hand: startTurn() itself tests for a player all of whose
\* discs are shot
TurnInit ==
    /\ gameState = "shooting"
    /\ currentPlayerIndex \in Players
    /\ scores = [p \in Players |-> 0]
    /\ round = 1
    /\ isSuddenDeath = FALSE
    /\ winner = NoWinner
    /\ aiTimeout = "null"
    /\ timers = << >>
    /\ \E shot \in [Players \X DiscIdx -> BOOLEAN] :
          /\ discs = [p \in Players |-> [i \in DiscIdx |->
                         [NewDisc EXCEPT !.hasBeenShot = shot[<<p, i>>]]]]
          /\ shots = Cardinality({c \in Players \X DiscIdx : shot[c]})
    /\ currentDiscIndex = [p \in Players |-> 0]
    /\ isCharging = [p \in Players |-> FALSE]
    /\ \E aiEnabled \in BOOLEAN : isAI = [p \in Players |-> p = 1 /\ aiEnabled]
    /\ epoch = 1
    /\ played = 1
    /\ roundBase = [p \in Players |-> 0]
    /\ probe = [z |-> DiscStartZ, points |-> getPointsForPosition(DiscStartZ)]
    /\ plan = NoPlan
    /\ ui = NewUi
    /\ player = NoPlayer
    /\ loop = NoLoop
    /\ playerScore = [p \in Players |-> 0]
    /\ state = NewState
    /\ lastOp = "init"
    /\ lastStale = FALSE

\* the turn starts: startTurn()
StartTurnCall ==
    /\ lastOp = "init"
    /\ Install(startTurn(Cur), "startTurn", FALSE)

NextTurnStart ==
    \/ StartTurnCall
    \/ FirstRound /\ BeginCharge
    \/ FirstRound /\ ReleaseShot
    \/ FirstRound /\ AiTimerFire
    \/ FirstRound /\ AiShotFire
    \/ FirstRound /\ SettlePoll
    \/ FirstRound /\ ScoreTimerFire

\* a turn that starts with any hand, and the rest of the round
TurnStartSpec == TurnInit /\ [][NextTurnStart]_vars

(***************************************************************************)
(* Properties                                                              *)
(***************************************************************************)
\* sum of the values of the discs of one player that a step marked scored
RECURSIVE newlyScored(_, _, _)
newlyScored(before, after, i) ==
    IF i >= DiscsPerPlayer THEN 0
    ELSE (IF ~before[i].hasBeenScored /\ after[i].hasBeenScored
          THEN after[i].score ELSE 0) + newlyScored(before, after, i + 1)

\* the scoring fields of a disc
Scoring(d) == << d.hasBeenScored, d.score, d.scoreType >>

\* C1: scoring is idempotent.  A pass of checkScoring skips every disc that is
\* already scored (its flag, value and category stay as recorded) and adds to
\* each owner's total exactly the values of the discs it marks scored in this
\* pass, so a disc's value is counted once however often checkScoring runs.
C1_ScoringIdempotent ==
    [][lastOp' = "checkScoring" =>
         \A p \in Players :
            /\ \A i \in DiscIdx :
                  discs[p][i].hasBeenScored =>
                     Scoring(discs'[p][i]) = Scoring(discs[p][i])
            /\ scores'[p] = scores[p] + newlyScored(discs[p], discs'[p], 0)]_vars

\* C1 witness: checkScoring has just run in the second round, after player 0's
\* first disc, scored 10 in the first round, was shot again: the total is still 10
C1_Witness ==
    /\ lastOp = "checkScoring"
    /\ ~lastStale
    /\ round = 2
    /\ shots >= 1
    /\ discs[0][0].hasBeenScored
    /\ discs[0][0].score = 10
    /\ discs[0][1].hasBeenScored
    /\ discs[0][1].score = 0
    /\ scores[0] = 10

\* C2: turn rotation.  A round completes after exactly NumPlayers *
\* DiscsPerPlayer shots; the k-th shot of a round is taken by player
\* k mod NumPlayers; and every scoring pass that follows a shot hands the turn
\* to (currentPlayerIndex + 1) mod NumPlayers.
C2_TurnRotation ==
    [][/\ round' = round + 1 => shots = NumPlayers * DiscsPerPlayer
       /\ shots' = shots + 1 => currentPlayerIndex = shots % NumPlayers
       /\ (lastOp' = "checkScoring" /\ gameState # "gameOver") =>
             currentPlayerIndex' = (currentPlayerIndex + 1) % NumPlayers]_vars

\* no match was aborted so far
NoAbort == winner = NoWinner /\ epoch <= 1

\* the rotation of C2 holds as long as no match was aborted
C2_RotationUnaborted ==
    [][(NoAbort /\ NoAbort') =>
         /\ round' = round + 1 => shots = NumPlayers * DiscsPerPlayer
         /\ shots' = shots + 1 => currentPlayerIndex = shots % NumPlayers
         /\ (lastOp' = "checkScoring" /\ gameState # "gameOver") =>
               currentPlayerIndex' = (currentPlayerIndex + 1) % NumPlayers]_vars

\* the players whose total is at or above the winning score
AtThreshold(sc) == {p \in Players : sc[p] >= WinningScore}

\* C3: win detection.  When the scoring pass that completes a round leaves
\* exactly one player at or above the winning score, with no sudden death
\* active, the match goes to gameOver with that player as the winner.
C3_WinDetection ==
    [][(/\ lastOp' = "checkScoring"
        /\ gameState # "gameOver"
        /\ round' = round + 1
        /\ ~isSuddenDeath
        /\ Cardinality(AtThreshold(scores')) = 1) =>
          /\ gameState' = "gameOver"
          /\ winner' \in AtThreshold(scores')]_vars

\* what a player scored in the round that a step completes
Tally(p) == scores'[p] - roundBase[p]

\* C4: sudden death.  A round that ends tied at or above the winning score
\* turns isSuddenDeath on, and the match then goes to gameOver at the end of
\* the first round in which one player's round tally strictly exceeds the
\* other's.
C4_SuddenDeath ==
    [][(lastOp' = "checkScoring" /\ gameState # "gameOver" /\ round' = round + 1) =>
          /\ TiedAtThreshold(scores') => isSuddenDeath'
          /\ (isSuddenDeath /\ \E p, q \in Players : Tally(p) > Tally(q)) =>
                gameState' = "gameOver"]_vars

\* the step is the settle poll of pending timer n, which scheduled a callback
PollStep(n) ==
    /\ timers[n].kind = "poll"
    /\ lastOp' \in {"pollMoving", "pollQuiet"}
    /\ Len(timers') = Len(timers)
    /\ timers' = Append(RemoveAt(timers, n), timers'[Len(timers')])

\* the callback a settle poll scheduled
Scheduled == timers'[Len(timers')]

\* C5: settling debounce.  Within the poll budget a disc is declared settled
\* (the post-settle timer is scheduled) only by the third of three consecutive
\* polls that found it at rest, and a poll that finds it moving on the board
\* sets the consecutive counter back to 0 and does not settle it: after
\* [moving, still, still] the disc is not settled.
C5_SettlingDebounce ==
    [][\A n \in DOMAIN timers :
         (PollStep(n) /\ timers[n].attempts + 1 < MaxChecks) =>
            /\ Scheduled.kind = "score" =>
                  /\ lastOp' = "pollQuiet"
                  /\ timers[n].still >= RequiredStationaryFrames - 1
            /\ lastOp' = "pollMoving" =>
                  /\ Scheduled.kind = "poll"
                  /\ Scheduled.frames = 0]_vars

\* C5 witness: the third poll of a shot has run on the samples
\* [moving, still, still] and scheduled the next poll, not the scoring
C5_Witness ==
    /\ lastOp = "pollQuiet"
    /\ \E n \in DOMAIN timers :
          /\ timers[n].kind = "poll"
          /\ timers[n].attempts = 3
          /\ timers[n].frames = 2
          /\ timers[n].still = 2

\* a settle poll is pending
PollPending == \E n \in DOMAIN timers : timers[n].kind = "poll"

\* C6: settling fail-safe.  A pending settle poll has run fewer than MaxChecks
\* times (the poll that reaches the budget settles the disc whatever it
\* sees), and once a shot is being polled the post-settle callback eventually
\* runs checkScoring, unless the game is over or the horizon of the model is
\* reached first.
C6_SettlingFailSafe ==
    /\ [](\A n \in DOMAIN timers :
            timers[n].kind = "poll" => timers[n].attempts < MaxChecks)
    /\ (PollPending ~>
          (lastOp = "checkScoring" \/ gameState = "gameOver" \/ ~FirstRound))

\* C6 witness: a poll that found the disc still moving on the board has
\* scheduled the scoring, because it was the last poll of the budget
C6_Witness ==
    /\ lastOp = "pollMoving"
    /\ gameState = "shooting"
    /\ \E n \in DOMAIN timers : timers[n].kind = "score"

\* C7: stale timer callbacks are no-ops.  A callback that was already
\* pending when a new turn started, the game was over or the menu was shown
\* (or that such a callback scheduled) shoots no disc and leaves gameState,
\* currentPlayerIndex and scores as they are.
C7_StaleCallbacksNoOp ==
    [][lastStale' =>
         /\ gameState' = gameState
         /\ currentPlayerIndex' = currentPlayerIndex
         /\ scores' = scores
         /\ shots' = shots]_vars

\* in a match that was never aborted no callback outlives its turn
NoStaleUnaborted ==
    NoAbort => /\ ~lastStale
               /\ \A n \in DOMAIN timers : ~timers[n].stale

\* C8: gameOver is terminal.  While gameState is "gameOver" no step changes
\* gameState, currentPlayerIndex, scores or a disc, except the reset that shows
\* the menu; and endTurn and checkScoring, called in that state, change
\* nothing.
C8_GameOverTerminal ==
    [][gameState = "gameOver" =>
         /\ \/ lastOp' = "showMainMenu"
            \/ /\ gameState' = gameState
               /\ currentPlayerIndex' = currentPlayerIndex
               /\ scores' = scores
               /\ discs' = discs
         /\ endTurn(Cur) = Cur
         /\ \A at \in [Candidates -> Cells] :
               checkScoring(Cur, Reported(at)) = Cur]_vars

\* C8 witness: the delayed AI shot has fired with the game over, and its disc
\* is still not shot
C8_Witness ==
    /\ gameState = "gameOver"
    /\ lastOp = "aiShot"
    /\ ~discs[1][0].hasBeenShot

\* C9: out-of-bounds scoring.  A disc that was scored while its lateral
\* coordinate was beyond the board width has category "out" and value 0,
\* wherever it lay along the board.
C9_OutOfBoundsScoring ==
    \A p \in Players, i \in DiscIdx :
        (/\ discs[p][i].hasBeenScored
         /\ isOutOfBounds(discs[p][i].scoredAt.x, discs[p][i].scoredAt.z)) =>
            /\ discs[p][i].scoreType = "out"
            /\ discs[p][i].score = 0

\* C10: zone lookup.  For every zone of the board, the position at the zone's
\* min gets the zone's points, and the position one unit below gets the
\* points of the next lower zone, or 0 below the lowest zone.
C10_ZoneLookup ==
    \A k \in DOMAIN ScoringZones :
        /\ probe.z = ScoringZones[k].min =>
              probe.points = ScoringZones[k].points
        /\ probe.z = ScoringZones[k].min - 1 =>
              probe.points = IF k < Len(ScoringZones)
                             THEN ScoringZones[k + 1].points ELSE 0

\* C10 witness: the position looked up is 15, the min of the 8-point zone and
\* the max of the 7-point zone, and the lookup returned 8
C10_Witness == probe.z = 15 /\ probe.points = 8

\* C11: AI power bounds.  Whatever the difficulty setting and the random
\* draws, the power of a planned shot lies in [0.1, 1.0].
C11_AiPowerBounds ==
    lastOp = "planShot" => (plan.power >= 100 /\ plan.power <= 1000)

\* C11 witness: an easy-tier shot whose perturbed power exceeded 1.0 was
\* planned with power 1.0
C11_Witness ==
    /\ lastOp = "planShot"
    /\ plan.difficulty = "easy"
    /\ plan.power = 1000

\* the largest deviation the difficulty setting allows, in thousandths of a
\* degree
AllowedDeviation(difficulty) ==
    CASE difficulty = "easy" -> 30000
      [] difficulty = "hard" -> 15000
      [] OTHER -> 20000

\* C12: AI angle variance.  The aim angle of a planned shot differs from
\* atan2(dx, dz) by at most 30 degrees on easy, 20 on medium and 15 on hard.
C12_AiAngleVariance ==
    lastOp = "planShot" =>
        /\ plan.angleOffset <= AllowedDeviation(plan.difficulty)
        /\ 0 - plan.angleOffset <= AllowedDeviation(plan.difficulty)

\* C12 witness: a hard-tier shot planned at the full 15 degrees off
C12_Witness ==
    /\ lastOp = "planShot"
    /\ plan.difficulty = "hard"
    /\ plan.angleOffset = -15000

\* the edges of the phase machine as gameState shows them: scoring and the
\* end of a round are steps of the scoring pass, which leaves gameState at
\* "aiming" for the next turn or at "gameOver"
PhaseEdges ==
    {<<"menu", "aiming">>, <<"aiming", "charging">>, <<"charging", "aiming">>,
     <<"charging", "shooting">>, <<"shooting", "aiming">>,
     <<"gameOver", "menu">>}
    \cup {<<g, "gameOver">> : g \in {"menu", "aiming", "charging", "shooting"}}

\* C13: phase edges.  Every change of gameState follows a defined edge: the
\* shooting phase is entered only from charging, and a scoring pass runs only
\* in the shooting phase, on human and AI turns alike.
C13_PhaseEdges ==
    [][/\ gameState' # gameState => <<gameState, gameState'>> \in PhaseEdges
       /\ (gameState' = "shooting" /\ gameState # "shooting") =>
             gameState = "charging"
       /\ (lastOp' = "checkScoring" /\ gameState # "gameOver") =>
             gameState = "shooting"]_vars

\* the edges of C13 hold for two human players as long as no match was aborted
C13_EdgesHumanUnaborted ==
    [][((\A p \in Players : ~isAI[p]) /\ NoAbort /\ NoAbort') =>
         /\ gameState' # gameState => <<gameState, gameState'>> \in PhaseEdges
         /\ (gameState' = "shooting" /\ gameState # "shooting") =>
               gameState = "charging"
         /\ (lastOp' = "checkScoring" /\ gameState # "gameOver") =>
               gameState = "shooting"]_vars

\* C14: round reset un-scores discs.  When a round ends and the next one
\* starts, every disc is un-shot and un-scored; and a disc that is shot is not
\* yet scored, so the scoring pass that follows scores it.
C14_ResetUnscores ==
    [][/\ (round' = round + 1 /\ gameState' # "gameOver") =>
             \A p \in Players, i \in DiscIdx :
                 ~discs'[p][i].hasBeenShot /\ ~discs'[p][i].hasBeenScored
       /\ \A p \in Players, i \in DiscIdx :
             (discs'[p][i].hasBeenShot /\ ~discs[p][i].hasBeenShot) =>
                 ~discs'[p][i].hasBeenScored]_vars

\* C15: scored implies shot.  Every disc that is marked scored is marked
\* shot.
C15_ScoredImpliesShot ==
    \A p \in Players, i \in DiscIdx :
        discs[p][i].hasBeenScored => discs[p][i].hasBeenShot

\* the invariant of C15 holds until the first reset of a disc
C15_HoldsBeforeReset ==
    (round = 1 /\ shots < NumPlayers * DiscsPerPlayer /\ NoAbort) =>
        C15_ScoredImpliesShot

\* C16: dead-area scoring.  A scoring pass marks every disc that was shot and
\* not yet scored as scored; one that lies on the board in no zone gets the
\* value 0 and the category none.
C16_DeadAreaScoring ==
    [][(lastOp' = "checkScoring" /\ gameState # "gameOver") =>
         \A p \in Players, i \in DiscIdx :
             IsScoringCandidate(discs[p][i]) =>
                 /\ discs'[p][i].hasBeenScored
                 /\ (/\ getScoreForPosition(discs'[p][i].scoredAt.x,
                                            discs'[p][i].scoredAt.z) = Null
                     /\ ~isOutOfBounds(discs'[p][i].scoredAt.x,
                                       discs'[p][i].scoredAt.z)) =>
                        /\ discs'[p][i].score = 0
                        /\ discs'[p][i].scoreType = "none"]_vars

Penalised(p) ==
    {i \in DiscIdx : /\ ~discs[p][i].hasBeenScored
                     /\ discs'[p][i].hasBeenScored
                     /\ discs'[p][i].scoredAt \in PenaltyCells}

C18_IgnoredUnaborted ==
    [][(NoAbort /\ lastOp' = "releaseWhileAiming") =>
         UNCHANGED << gameState, currentPlayerIndex, scores, round,
                      isSuddenDeath, winner, aiTimeout, timers, discs,
                      currentDiscIndex, isCharging, shots >>]_vars

\* every disc of the player whose turn it is has been shot
EmptyHand == \A i \in DiscIdx : discs[currentPlayerIndex][i].hasBeenShot

\* the round is not over: some disc is still to be shot
MidRound == \E p \in Players, i \in DiscIdx : ~discs[p][i].hasBeenShot

AllDiscsShot == \A p \in Players, i \in DiscIdx : discs[p][i].hasBeenShot

\* C20: round end.  A scoring pass ends the round exactly when every disc of
\* every player has been shot; while a disc is still to be shot the round
\* goes on with another turn.
C20_RoundEndsWhenAllShot ==
    [][/\ round' = round + 1 => AllDiscsShot
       /\ (lastOp' = "checkScoring" /\ gameState # "gameOver") =>
             IF AllDiscsShot THEN round' = round + 1
             ELSE round' = round /\ gameState' = "aiming"]_vars

\* the round end of C20 holds for two human players as long as no match was
\* aborted
C20_HumanUnaborted ==
    [][((\A p \in Players : ~isAI[p]) /\ NoAbort /\ NoAbort') =>
         /\ round' = round + 1 => AllDiscsShot
         /\ (lastOp' = "checkScoring" /\ gameState # "gameOver") =>
               IF AllDiscsShot THEN round' = round + 1
               ELSE round' = round /\ gameState' = "aiming"]_vars

\* the step is the settle poll of pending timer n and found the disc out of
\* bounds
OobPollStep(n) ==
    /\ timers[n].kind = "poll"
    /\ lastOp' = "pollOob"
    /\ Len(timers') = Len(timers)
    /\ timers' = Append(RemoveAt(timers, n), timers'[Len(timers')])

\* C21: out of bounds settles at once.  A settle poll that finds the disc out
\* of bounds schedules the scoring at that poll.
C21_OobSettlesAtOnce ==
    [][\A n \in DOMAIN timers :
         OobPollStep(n) => Scheduled.kind = "score"]_vars

\* C21 as amended: a settle poll that finds the disc out of bounds counts as
\* one more poll at rest, however far the disc moved; within the poll budget it
\* schedules the scoring exactly when it is the third such poll in a row, and
\* otherwise the next poll.
C21_OobCountsAsAtRest ==
    [][\A n \in DOMAIN timers :
         (OobPollStep(n) /\ timers[n].attempts + 1 < MaxChecks) =>
            IF timers[n].frames + 1 >= RequiredStationaryFrames
            THEN Scheduled.kind = "score"
            ELSE /\ Scheduled.kind = "poll"
                 /\ Scheduled.frames = timers[n].frames + 1]_vars

\* C21 witness: the first poll of a shot found the disc out of bounds and
\* scheduled the next poll, not the scoring
C21_Witness ==
    /\ lastOp = "pollOob"
    /\ \E n \in DOMAIN timers :
          /\ timers[n].kind = "poll"
          /\ timers[n].attempts = 1
          /\ timers[n].frames = 1

\* the step started the settle polls of a shot
PollingStarted ==
    /\ lastOp' \in {"releaseShot", "aiShot"}
    /\ Len(timers') >= 1
    /\ Scheduled.kind = "poll"
    /\ Scheduled.attempts = 0

ZonesAt(z) == {i \in 1 .. Len(ScoringZones) : InZone(z, ScoringZones[i])}

\* C24: the zones do not overlap.  No position passes the membership test of
\* the lookup for more than one zone.
C24_ZonesDisjoint == Cardinality(ZonesAt(probe.z)) <= 1

\* apart from the end points that two neighbouring zones share, no position is
\* in more than one zone
C24_OverlapOnlyAtSharedEnds ==
    Cardinality(ZonesAt(probe.z)) > 1 =>
        \E i \in 1 .. (Len(ScoringZones) - 1) :
            /\ probe.z = ScoringZones[i].min
            /\ probe.z = ScoringZones[i + 1].max
            /\ ZonesAt(probe.z) = {i, i + 1}

\* the planned shot drew the strike at an opponent disc and there was none
StrikeWithoutOpponent ==
    /\ lastOp = "planShot"
    /\ plan.hit
    /\ plan.zone >= 700
    /\ plan.opp.none

\* C25: strike without opponent discs.  When the draw selects the strike at
\* an opponent disc and there is none, the target is chosen as for the medium
\* zones: lateral within +/-1, longitudinal within [8, 9.5].
C25_StrikeFallsBackToMidZone ==
    StrikeWithoutOpponent =>
        /\ plan.target.x >= -1000 /\ plan.target.x <= 1000
        /\ plan.target.z >= 8000 /\ plan.target.z <= 9500

\* C25 as amended: when the draw selects the strike at an opponent disc and
\* there is none, the target is the default one, lateral 0 and longitudinal 10.
C25_StrikeKeepsDefaultTarget ==
    StrikeWithoutOpponent => plan.target = [x |-> 0, z |-> 10000]

\* C25 witness: a shot was planned on the strike draw without an opponent disc
C25_Witness ==
    /\ StrikeWithoutOpponent
    /\ plan.target.z = 10000

\* C26: game-over screen.  The screen that gameOver(winnerIndex) shows names
\* the winner (the player for index 0, the AI for index 1) and shows the final
\* scores scores[0] and scores[1].
C26_GameOverScreen ==
    lastOp = "showGameOver" =>
        /\ ui.screen.title = (IF ui.winnerIndex = 0 THEN "You Win!" ELSE "Game Over")
        /\ ui.screen.you = JsNumber(ui.scores[1])
        /\ ui.screen.ai = JsNumber(ui.scores[2])

\* neither version of the UIManager shows a win of the player
C26_NeverYouWin == ui.screen.title # "You Win!"

\* C29: closeMenu() returns true whenever the menu is closed when the call
\* returns, and openMenu() returns true whenever the menu is open when it
\* returns.
C29_MenuCallsReportSuccess ==
    /\ (lastOp = "closeMenu" /\ ~ui.isMenuOpen) => ui.returned
    /\ (lastOp = "openMenu" /\ ui.isMenuOpen) => ui.returned

\* the half of C29 about openMenu, and closeMenu on a closed menu
C29_OpenMenuReportsSuccess ==
    /\ []((lastOp = "openMenu" /\ ui.isMenuOpen) => ui.returned)
    /\ [][(lastOp' = "closeMenu" /\ ~ui.isMenuOpen) => ui'.returned]_vars

\* C27: charge power.  A player's charge power stays within [0, 1] after any
\* sequence of startCharging, update(delta) and shoot, and startCharging
\* resets it to 0.
C27_ChargePowerInRange ==
    /\ [](player.currentPower >= 0 /\ player.currentPower <= 1000)
    /\ [][lastOp' = "startCharging" =>
            player'.isCharging /\ player'.currentPower = 0]_vars

\* C27 witness: an update of a charging part_000 player has cut the ramp at 1
\* and turned it downwards
C27_Witness ==
    /\ lastOp = "update" /\ player.version = "part_000" /\ player.isCharging
    /\ player.currentPower = 1000 /\ ~player.powerIncreasing

\* C28: disc set.  A player never holds more than 4 discs, after construction
\* and after any sequence of createDiscs, reset, resetDiscs and addDisc, and
\* addDisc on a full set returns false and leaves the set unchanged.
C28_DiscSetBounded ==
    /\ [](Len(player.discs) <= 4)
    /\ [][(lastOp' = "addDisc" /\ Len(player.discs) = 4) =>
            (~player'.added /\ player'.discs = player.discs)]_vars

\* C28 witness: addDisc was refused on a full set
C28_Witness ==
    lastOp = "addDisc" /\ Len(player.discs) = 4 /\ ~player.added

\* C30: no disc is shot twice in a round.  Every shot launches a disc that had
\* not been shot since the round began, so the discs a player shoots in
\* successive turns of one round are distinct.
C30_NoDiscShotTwice ==
    [][shots' = shots + 1 =>
         \E p \in Players, i \in DiscIdx :
            ~discs[p][i].hasBeenShot /\ discs'[p][i].hasBeenShot]_vars

\* human players never shoot a disc twice in a round
C30_HumanShotsDistinct ==
    [][(lastOp' = "releaseShot" /\ shots' = shots + 1) =>
         \E p \in Players, i \in DiscIdx :
            ~discs[p][i].hasBeenShot /\ discs'[p][i].hasBeenShot]_vars

\* C31: frame loop.  Once init() has completed, exactly one animation frame
\* is requested at any time and it runs the render loop (not an empty
\* function), also after a frame that threw.
C31_FrameLoopRunning ==
    loop.inited =>
        /\ Len(loop.pending) = 1
        /\ loop.pending[1].fn \in {"field", "method"}

\* the loop of part_001 keeps exactly one frame requested
C31_LoopRunsInPart001 ==
    (loop.inited /\ loop.version = "part_001") =>
        /\ Len(loop.pending) = 1
        /\ loop.pending[1].fn = "method"

\* C32: no callback after cleanup.  Once cleanup() has run, a pending gameplay
\* timer that fires changes no game state and schedules no further timer.
C32_NoCallbackAfterCleanup ==
    [][loop.cleaned =>
         /\ UNCHANGED << gameState, currentPlayerIndex, scores, round, discs,
                         shots >>
         /\ Len(timers') < Len(timers)]_vars

\* after cleanup() no score changes: the scoring pass throws on the missing
\* world
C32_ScoresFrozenAfterCleanup ==
    [][loop.cleaned => (scores' = scores /\ lastOp' # "checkScoring")]_vars

\* C33: score table and player records.  scores[i] equals players[i].score for
\* each player i, so updateScores and updatePlayerInfo show the same totals.
C33_ScoresAgree ==
    \A p \in Players : scores[p] = playerScore[p]

\* the totals kept in the Player records never leave 0
C33_PlayerScoreStaysZero ==
    \A p \in Players : playerScore[p] = 0

\* C34: gameOver is idempotent.  A call of gameOver(w) while gameState is
\* already 'gameOver' changes no state and does not show the game-over screen
\* again, whatever w is.
C34_GameOverIdempotent ==
    [][(lastOp' = "gameOverCall" /\ gameState = "gameOver") =>
         UNCHANGED << gameState, currentPlayerIndex, scores, round, winner,
                      timers, discs, ui >>]_vars

\* gameOver of game.js is idempotent
C34_IdempotentInGameJs ==
    [][(lastOp' = "gameOverCall" /\ gameState = "gameOver"
           /\ loop.version = "game.js") =>
         UNCHANGED << gameState, currentPlayerIndex, scores, round, winner,
                      timers, discs, ui >>]_vars

\* the callbacks registered in a state object
Registered(st) ==
    {st.onStateChangeCallbacks[n] : n \in DOMAIN st.onStateChangeCallbacks}

\* C35: setState.  A setState with a name outside validStates leaves
\* state.value unchanged and calls no listener; state.value is always one of
\* validStates; an accepted setState calls every registered listener with
\* (newState, oldState), also when another listener throws.
C35_SetStateGuarded ==
    /\ [](state.value \in validStates)
    /\ [][lastOp' = "setState" =>
            IF state'.arg \notin validStates
            THEN state'.value = state.value /\ state'.calls = << >>
            ELSE /\ state'.value = state'.arg
                 /\ \A c \in Registered(state) :
                       \E n \in DOMAIN state'.calls :
                          state'.calls[n] =
                             [callback |-> c, newState |-> state'.arg,
                              oldState |-> state.value]]_vars

\* C35 witness: an accepted setState has called a listener that throws and
\* then another listener
C35_Witness ==
    /\ lastOp = "setState" /\ state.arg \in validStates
    /\ Len(state.calls) >= 2
    /\ state.calls[1].callback \in Throwing
    /\ state.calls[1].oldState # state.calls[1].newState

\* C36: after UIManager.init(game) has resolved, a call of hideLoadingScreen()
\* leads to the loading overlay being hidden: when the call returns the
\* overlay has display 'none' or a callback that will hide it is pending.
C36_HideLoadingScreenHides ==
    [][(lastOp' = "hideLoadingScreen" /\ ui.initResolved) =>
         (ui'.overlay.display = "none" \/ ui'.pending # << >>)]_vars

\* hideLoadingScreen of uiManager.js leaves a timer that hides the overlay,
\* and every pending callback of either version leads to display 'none'
C36_HidesInUiManagerJs ==
    /\ [][(lastOp' = "hideLoadingScreen" /\ ui.initResolved
              /\ ui.version = "uiManager.js") =>
            (ui'.overlay.display = "none" \/ ui'.pending # << >>)]_vars
    /\ [][(lastOp' = "runUiCallback" /\ Len(ui.pending) = 1) =>
            (ui'.overlay.display = "none"
                \/ ui'.pending = << "hideTimeout" >>)]_vars

\* C37: after any sequence of showModal, hideModal, hideAllModals, showMessage
\* and hideMessage, isModalOpen is true whenever some modal or the message
\* box is on display.
C37_ModalOpenWhenDisplayed ==
    (ui.active # {} \/ ui.messageBox = "block") => ui.isModalOpen

\* with the UIManager of uiManager.js isModalOpen is true whenever a modal is
\* on display
C37_HoldsInUiManagerJs ==
    (ui.version = "uiManager.js" /\ ui.active # {}) => ui.isModalOpen

=============================================================================
